---------------------------- MODULE Spec2Model ----------------------------
(***************************************************************************)
(* Model of the evaluation code of the Wave-U-Net source separation        *)
(* repository: predict / predict_track (windowed inference over a mixture  *)
(* of arbitrary length) and compute_mean_metrics (aggregation of the       *)
(* per-track score files), both of src/Evaluate.py.                        *)
(*                                                                         *)
(* Arrays are modelled by their shape and, for the per-source output       *)
(* buffers, by a cell per frame that records which window wrote it last.   *)
(* Python indices are kept 0-based; Python lists are TLA+ sequences.       *)
(***************************************************************************)
EXTENDS Integers, Sequences, FiniteSets, TLC

VARIABLES
    \* ---- predict / predict_track (src/Evaluate.py:100-188) ----
    pc,                 \* position in predict / predict_track
    raised,             \* the exception that ended the call, "none" if none
    track_audio,        \* the caller's array track.audio (its shape)
    orig_sr,            \* track.rate
    mix_channels,       \* track.audio.shape[1], read at line 100
    model_config,       \* mono_downmix, num_sources, expected_sr
    sep_input_shape,    \* <<batch, frames, channels>> of the network input
    sep_output_shape,   \* <<batch, frames, channels>> of the network output
    mix_audio,          \* predict_track's local mix_audio (shape)
    source_preds,       \* the per-source output buffers
    mix_audio_padded,   \* the padded mixture (shape)
    range_next,         \* next value of range(0, source_time_frames, output_time_frames)
    source_pos,         \* the loop variable, after the adjustment of line 175
    mix_part,           \* the excerpt fed to the network (shape)
    source_parts,       \* what sess.run returned for the current window
    i,                  \* index of the inner loop of line 185
    pred_audio,         \* predict's list of estimates (shapes)
    \* ---- history of the run, read by the properties only ----
    starts,             \* source_pos of every window, in order
    ranges,             \* the frames every window wrote, <<lo, hi>> meaning [lo, hi)
    infer_calls,        \* number of sess.run calls on separator_sources
    writes,             \* writes[s][p]: times frame p of buffer s was assigned
    inconsistent,       \* some sess.run result did not have the configured shape
    \* ---- compute_mean_metrics (src/Evaluate.py:191-211) ----
    mpc,                \* position in compute_mean_metrics
    mraised,            \* the exception that ended it, "none" if none
    files,              \* the score records in the order glob.glob lists them
    path,               \* index in files of the next file to read
    compute_averages,   \* the parameter compute_averages
    sdr_inst_list,      \* None (<<>>) or <<the list of the per-source lists>>
    stats,              \* the value returned
    \* ---- alpha_snr (src/Evaluate.py:35-44) ----
    apc,                \* position in alpha_snr
    target,             \* the parameter target (sample values)
    estimate,           \* the parameter estimate (sample values)
    snr_result,         \* how the call ended: exception raised, value returned
    \* ---- compute_metrics (src/Evaluate.py:234-278) ----
    cpc,                \* position in compute_metrics
    craised,            \* the exception that ended it, "none" if none
    dataset,            \* the tracks the iterator has still to give
    metrics,            \* the lists metrics[SDR], metrics[SIR], metrics[SAR]
    printed,            \* what was printed, in order
    saved,              \* the array np.save wrote, <<>> if none
    \* ---- getURMPV2 (src/Wave-U-Net/Datasets.py:176-238), one track folder ----
    upc,                \* position in the body of the loop over folders
    uraised,            \* the exception that ended it, "none" if none
    listing,            \* os.listdir of the folder, in the order listed
    entry,              \* index in listing of the next file name
    track_sources,      \* the list track_sources
    track_list          \* the tuples appended to track_list

predictVars == <<pc, raised, track_audio, orig_sr, mix_channels, model_config,
                 sep_input_shape, sep_output_shape, mix_audio, source_preds,
                 mix_audio_padded, range_next, source_pos, mix_part,
                 source_parts, i, pred_audio, starts, ranges, infer_calls,
                 writes, inconsistent>>

metricVars == <<mpc, mraised, files, path, compute_averages, sdr_inst_list, stats>>

snrVars == <<apc, target, estimate, snr_result>>

evalVars == <<cpc, craised, dataset, metrics, printed, saved>>

urmpVars == <<upc, uraised, listing, entry, track_sources, track_list>>

vars == <<predictVars, metricVars, snrVars, evalVars, urmpVars>>

\* What predict and predict_track leave alone, and what compute_mean_metrics
\* leaves alone.
notPredictVars == <<metricVars, snrVars, evalVars, urmpVars>>
notMetricVars == <<predictVars, snrVars, evalVars, urmpVars>>

---------------------------------------------------------------------------
(* Bounds of the model.                                                    *)

MaxFrames == 4      \* frames of the caller's mixture, 1..MaxFrames
MaxOut == 3         \* output window length, 1..MaxOut
MaxPad == 1         \* context on each side of the window, 0..MaxPad
MaxSources == 2     \* num_sources, 1..MaxSources
MaxChannels == 3    \* channels of the caller's mixture, 1..MaxChannels
MaxFiles == 2       \* score files in the folder, 0..MaxFiles
MaxTargets == 2     \* targets of one score record, 0..MaxTargets
MaxLen == 2         \* samples of a signal given to alpha_snr, 1..MaxLen
MaxSample == 2      \* sample values, -MaxSample..MaxSample
MaxTracks == 3      \* tracks of the test dataset, 0..MaxTracks
MaxListing == 3     \* files of a track folder, 0..MaxListing

SampleRates == {1, 2}   \* sampling rates, in an arbitrary unit

\* The scenario of the documentation: 1000 frames, windows of 400 out of 600.
Scenario == [frames |-> 1000, out |-> 400, pad |-> 100]

---------------------------------------------------------------------------
(* Arithmetic helpers.                                                     *)

Min(a, b) == IF a < b THEN a ELSE b
Max(a, b) == IF a > b THEN a ELSE b
CeilDiv(a, b) == (a + b - 1) \div b

\* The half-open range of indices a Python slice [start:stop] selects in an
\* axis of n entries: negative bounds count from the end, both are clipped.
SliceIndex(x, n) == IF x < 0 THEN Max(x + n, 0) ELSE Min(x, n)
SliceRange(n, start, stop) ==
    LET lo == SliceIndex(start, n)
        hi == SliceIndex(stop, n)
    IN  <<lo, Max(lo, hi)>>
SliceLen(n, start, stop) ==
    LET r == SliceRange(n, start, stop) IN r[2] - r[1]

\* numpy's rule for assigning a value of shape (vf, vc) to a target of shape
\* (tf, tc): every axis of the value is the target's or 1 (broadcast).
CanAssign(tf, tc, vf, vc) == (vf = tf \/ vf = 1) /\ (vc = tc \/ vc = 1)

\* librosa.resample: the number of frames after resampling n frames.
ResampledFrames(n, from_sr, to_sr) == CeilDiv(n * to_sr, from_sr)

Shape(f, c) == [frames |-> f, channels |-> c]
NoArray == Shape(0, 0)

\* A cell of an output buffer: win = 0 is the zero np.zeros put there,
\* win = k > 0 the k-th window's result, off the frame of that result.
Cell(k, off) == [win |-> k, off |-> off]

input_time_frames == sep_input_shape[2]
output_time_frames == sep_output_shape[2]
\* Variant of the padding, as a slip would write it: the difference not halved.
pad_time_frames_whole == input_time_frames - output_time_frames

pad_time_frames == (input_time_frames - output_time_frames) \div 2
source_time_frames == mix_audio.frames

\* Channels of the separator's input and output: one for a mono model
\* (line 106: "duplicating mono estimate"), two otherwise (line 156: "input
\* is mono but model is stereo").
ModelChannels(mono) == IF mono THEN 1 ELSE 2


---------------------------------------------------------------------------
(* predict and predict_track.                                              *)

BoundedDims ==
    { [frames |-> n, out |-> o, pad |-> p] :
        n \in 1..MaxFrames, o \in 1..MaxOut, p \in 0..MaxPad }

PredictIdle ==
    /\ pc = "idle"
    /\ raised = "none"
    /\ track_audio = NoArray
    /\ orig_sr = 1
    /\ mix_channels = 0
    /\ model_config = [mono_downmix |-> FALSE, num_sources |-> 0, expected_sr |-> 1]
    /\ sep_input_shape = <<1, 0, 0>>
    /\ sep_output_shape = <<1, 0, 0>>
    /\ mix_audio = NoArray
    /\ source_preds = <<>>
    /\ mix_audio_padded = NoArray
    /\ range_next = 0
    /\ source_pos = 0
    /\ mix_part = NoArray
    /\ source_parts = <<>>
    /\ i = 0
    /\ pred_audio = <<>>
    /\ starts = <<>>
    /\ ranges = <<>>
    /\ infer_calls = 0
    /\ writes = <<>>
    /\ inconsistent = FALSE

\* predict, line 100, and the call of line 101: the track, the model
\* configuration and the separator's shapes are the inputs.
InitPredict(dims) ==
    \E mono \in BOOLEAN, ch \in 1..MaxChannels, ns \in 1..MaxSources,
       sr \in SampleRates, esr \in SampleRates, d \in dims :
        /\ pc = "adapt"
        /\ raised = "none"
        /\ track_audio = Shape(d.frames, ch)
        /\ orig_sr = sr
        /\ mix_channels = ch
        /\ model_config = [mono_downmix |-> mono, num_sources |-> ns, expected_sr |-> esr]
        /\ sep_input_shape = <<1, d.out + 2 * d.pad, ModelChannels(mono)>>
        /\ sep_output_shape = <<1, d.out, ModelChannels(mono)>>
        /\ mix_audio = Shape(d.frames, ch)
        /\ source_preds = <<>>
        /\ mix_audio_padded = NoArray
        /\ range_next = 0
        /\ source_pos = 0
        /\ mix_part = NoArray
        /\ source_parts = <<>>
        /\ i = 0
        /\ pred_audio = <<>>
        /\ starts = <<>>
        /\ ranges = <<>>
        /\ infer_calls = 0
        /\ writes = <<>>
        /\ inconsistent = FALSE

\* Lines 152-157: convert to mono, or duplicate the channel of a mono input.
AdaptedChannels(mono, ch) == IF mono THEN 1 ELSE IF ch = 1 THEN 2 ELSE ch

ChannelAdapt ==
    /\ pc = "adapt"
    /\ mix_audio' = Shape(mix_audio.frames,
                          AdaptedChannels(model_config.mono_downmix, mix_audio.channels))
    /\ pc' = "resample"
    /\ UNCHANGED notPredictVars
    /\ UNCHANGED <<raised, track_audio, orig_sr, mix_channels, model_config,
                   sep_input_shape, sep_output_shape, source_preds,
                   mix_audio_padded, range_next, source_pos, mix_part,
                   source_parts, i, pred_audio, starts, ranges, infer_calls,
                   writes, inconsistent>>

\* Line 158: resample to the model's sampling rate.
Resample ==
    /\ pc = "resample"
    /\ mix_audio' = Shape(ResampledFrames(mix_audio.frames, orig_sr, model_config.expected_sr),
                          mix_audio.channels)
    /\ pc' = "alloc"
    /\ UNCHANGED notPredictVars
    /\ UNCHANGED <<raised, track_audio, orig_sr, mix_channels, model_config,
                   sep_input_shape, sep_output_shape, source_preds,
                   mix_audio_padded, range_next, source_pos, mix_part,
                   source_parts, i, pred_audio, starts, ranges, infer_calls,
                   writes, inconsistent>>

\* Lines 161-162: one zero buffer per source, of the mixture's shape.
ZeroBufferMono(shape) ==
    [frames |-> shape.frames, channels |-> 1,
     data |-> [p \in 0..(shape.frames - 1) |-> Cell(0, 0)]]

ZeroBuffer(shape) ==
    [frames |-> shape.frames, channels |-> shape.channels,
     data |-> [p \in 0..(shape.frames - 1) |-> Cell(0, 0)]]

Preallocate ==
    /\ pc = "alloc"
    /\ source_preds' = [s \in 1..model_config.num_sources |-> ZeroBuffer(mix_audio)]
    /\ writes' = [s \in 1..model_config.num_sources |->
                    [p \in 0..(mix_audio.frames - 1) |-> 0]]
    /\ pc' = "pad"
    /\ UNCHANGED notPredictVars
    /\ UNCHANGED <<raised, track_audio, orig_sr, mix_channels, model_config,
                   sep_input_shape, sep_output_shape, mix_audio,
                   mix_audio_padded, range_next, source_pos, mix_part,
                   source_parts, i, pred_audio, starts, ranges, infer_calls,
                   inconsistent>>

\* Lines 168-169: pad the mixture in time at both ends.
PadMixture ==
    /\ pc = "pad"
    /\ mix_audio_padded' = Shape(mix_audio.frames + 2 * pad_time_frames, mix_audio.channels)
    /\ range_next' = 0
    /\ pc' = "loop"
    /\ UNCHANGED notPredictVars
    /\ UNCHANGED <<raised, track_audio, orig_sr, mix_channels, model_config,
                   sep_input_shape, sep_output_shape, mix_audio, source_preds,
                   source_pos, mix_part, source_parts, i, pred_audio, starts,
                   ranges, infer_calls, writes, inconsistent>>

\* Lines 172-175: the next value of the range, moved back when the output
\* patch would reach over the end.
\* Variants of the window rule and of the range's step, as slips would write them.
WindowStartNoShift(pos, frames, out) == pos
WindowStartPrevious(pos, frames, out) ==
    IF pos + out > frames THEN Max(0, pos - out) ELSE pos

WindowStart(pos, frames, out) == IF pos + out > frames THEN frames - out ELSE pos

RangeStepShort(out) == Max(1, out - 1)
RangeStepOne(out) == 1

\* Line 172: the step of the range.
RangeStep(out) == out

LoopNext ==
    /\ pc = "loop"
    /\ range_next < source_time_frames
    /\ source_pos' = WindowStart(range_next, source_time_frames, output_time_frames)
    /\ range_next' = range_next + RangeStep(output_time_frames)
    /\ starts' = Append(starts, source_pos')
    /\ pc' = "slice"
    /\ UNCHANGED notPredictVars
    /\ UNCHANGED <<raised, track_audio, orig_sr, mix_channels, model_config,
                   sep_input_shape, sep_output_shape, mix_audio, source_preds,
                   mix_audio_padded, mix_part, source_parts, i, pred_audio,
                   ranges, infer_calls, writes, inconsistent>>

\* Line 172 exhausted, line 188: predict_track returns source_preds.
LoopExit ==
    /\ pc = "loop"
    /\ range_next >= source_time_frames
    /\ pc' = "upsample"
    /\ UNCHANGED notPredictVars
    /\ UNCHANGED <<raised, track_audio, orig_sr, mix_channels, model_config,
                   sep_input_shape, sep_output_shape, mix_audio, source_preds,
                   mix_audio_padded, range_next, source_pos, mix_part,
                   source_parts, i, pred_audio, starts, ranges, infer_calls,
                   writes, inconsistent>>

\* Lines 178-179: the excerpt of the padded mixture.
SliceMix ==
    /\ pc = "slice"
    /\ mix_part' = Shape(SliceLen(mix_audio_padded.frames, source_pos,
                                  source_pos + input_time_frames),
                         mix_audio_padded.channels)
    /\ pc' = "run"
    /\ UNCHANGED notPredictVars
    /\ UNCHANGED <<raised, track_audio, orig_sr, mix_channels, model_config,
                   sep_input_shape, sep_output_shape, mix_audio, source_preds,
                   mix_audio_padded, range_next, source_pos, source_parts, i,
                   pred_audio, starts, ranges, infer_calls, writes, inconsistent>>


\* What sess.run gives for separator_sources: one array per source tensor,
\* each of the separator's output shape (batch axis dropped).
ConfiguredResult ==
    [s \in 1..model_config.num_sources |->
        Shape(sep_output_shape[2], sep_output_shape[3])]
ConformingResults == {ConfiguredResult}

\* An inference callable that is free in what it returns: any number of
\* windows, of any one shape.
ArbitraryResults ==
    { [s \in 1..n |-> Shape(f, c)] :
        n \in 0..(MaxSources + 1),
        f \in {1, sep_output_shape[2], sep_output_shape[2] + 1},
        c \in {1, 2} }

\* Line 181: run the network on the excerpt. A feed that has not the shape
\* of the input placeholder is refused by the session or taken as it is.
SessRun(resultSet) ==
    /\ pc = "run"
    /\ infer_calls' = infer_calls + 1
    /\ LET feedOK == mix_part = Shape(sep_input_shape[2], sep_input_shape[3])
       IN  \E refused \in (IF feedOK THEN {FALSE} ELSE BOOLEAN), r \in resultSet :
             IF refused
             THEN /\ pc' = "error"
                  /\ raised' = "ValueError"
                  /\ UNCHANGED <<source_parts, i, inconsistent>>
             ELSE /\ pc' = "save"
                  /\ source_parts' = r
                  /\ i' = 0
                  /\ inconsistent' = (inconsistent \/ r # ConfiguredResult)
                  /\ UNCHANGED raised
    /\ UNCHANGED notPredictVars
    /\ UNCHANGED <<track_audio, orig_sr, mix_channels, model_config,
                   sep_input_shape, sep_output_shape, mix_audio, source_preds,
                   mix_audio_padded, range_next, source_pos, mix_part,
                   pred_audio, starts, ranges, writes>>

\* Line 186: buf[source_pos:source_pos + output_time_frames] = part, for the
\* window number win.
AssignSlice(buf, lo, hi, part, win) ==
    [buf EXCEPT !.data =
        [p \in DOMAIN buf.data |->
            IF lo <= p /\ p < hi
            THEN Cell(win, IF part.frames = 1 THEN 0 ELSE p - lo)
            ELSE buf.data[p]]]

\* Lines 185-186: one pass of the inner loop, for source i.
SavePrediction ==
    /\ pc = "save"
    /\ i < model_config.num_sources
    /\ IF i + 1 > Len(source_parts)
       THEN /\ pc' = "error"
            /\ raised' = "IndexError"
            /\ UNCHANGED <<source_preds, i, ranges, writes>>
       ELSE LET buf == source_preds[i + 1]
                part == source_parts[i + 1]
                r == SliceRange(buf.frames, source_pos, source_pos + output_time_frames)
            IN  IF ~CanAssign(r[2] - r[1], buf.channels, part.frames, part.channels)
                THEN /\ pc' = "error"
                     /\ raised' = "ValueError"
                     /\ UNCHANGED <<source_preds, i, ranges, writes>>
                ELSE /\ source_preds' =
                            [source_preds EXCEPT ![i + 1] =
                                AssignSlice(buf, r[1], r[2], part, Len(starts))]
                     /\ writes' =
                            [writes EXCEPT ![i + 1] =
                                [p \in DOMAIN writes[i + 1] |->
                                    IF r[1] <= p /\ p < r[2]
                                    THEN writes[i + 1][p] + 1
                                    ELSE writes[i + 1][p]]]
                     /\ ranges' = IF i = 0 THEN Append(ranges, r) ELSE ranges
                     /\ i' = i + 1
                     /\ pc' = IF i + 1 = model_config.num_sources THEN "loop" ELSE "save"
                     /\ UNCHANGED raised
    /\ UNCHANGED notPredictVars
    /\ UNCHANGED <<track_audio, orig_sr, mix_channels, model_config,
                   sep_input_shape, sep_output_shape, mix_audio,
                   mix_audio_padded, range_next, source_pos, mix_part,
                   source_parts, pred_audio, starts, infer_calls, inconsistent>>

\* predict, line 104: resample every estimate back to the track's rate.
Upsample ==
    /\ pc = "upsample"
    /\ pred_audio' =
          [s \in 1..Len(source_preds) |->
              Shape(ResampledFrames(source_preds[s].frames, model_config.expected_sr, orig_sr),
                    source_preds[s].channels)]
    /\ pc' = "tile"
    /\ UNCHANGED notPredictVars
    /\ UNCHANGED <<raised, track_audio, orig_sr, mix_channels, model_config,
                   sep_input_shape, sep_output_shape, mix_audio, source_preds,
                   mix_audio_padded, range_next, source_pos, mix_part,
                   source_parts, i, starts, ranges, infer_calls, writes,
                   inconsistent>>

\* predict, lines 106-107: np.tile(pred, [1, mix_channels]) of a mono
\* estimate when the mixture had several channels.
TiledChannels(mono, ch, pred_channels) ==
    IF mono /\ ch > 1 THEN pred_channels * ch ELSE pred_channels

Replicate ==
    /\ pc = "tile"
    /\ pred_audio' =
          [s \in 1..Len(pred_audio) |->
              Shape(pred_audio[s].frames,
                    TiledChannels(model_config.mono_downmix, mix_channels,
                                  pred_audio[s].channels))]
    /\ pc' = "done"
    /\ UNCHANGED notPredictVars
    /\ UNCHANGED <<raised, track_audio, orig_sr, mix_channels, model_config,
                   sep_input_shape, sep_output_shape, mix_audio, source_preds,
                   mix_audio_padded, range_next, source_pos, mix_part,
                   source_parts, i, starts, ranges, infer_calls, writes,
                   inconsistent>>

MetricsIdle ==
    /\ mpc = "idle"
    /\ mraised = "none"
    /\ files = <<>>
    /\ path = 0
    /\ compute_averages = TRUE
    /\ sdr_inst_list = <<>>
    /\ stats = <<>>

SnrIdle ==
    /\ apc = "idle"
    /\ target = <<>>
    /\ estimate = <<>>
    /\ snr_result = <<>>

EvalIdle ==
    /\ cpc = "idle"
    /\ craised = "none"
    /\ dataset = <<>>
    /\ metrics = <<>>
    /\ printed = <<>>
    /\ saved = <<>>

UrmpIdle ==
    /\ upc = "idle"
    /\ uraised = "none"
    /\ listing = <<>>
    /\ entry = 0
    /\ track_sources = <<>>
    /\ track_list = <<>>

Init ==
    /\ InitPredict(BoundedDims \cup {Scenario})
    /\ MetricsIdle /\ SnrIdle /\ EvalIdle /\ UrmpIdle

Next ==
    \/ ChannelAdapt
    \/ Resample
    \/ Preallocate
    \/ PadMixture
    \/ LoopNext
    \/ LoopExit
    \/ SliceMix
    \/ SessRun(ConformingResults)
    \/ SavePrediction
    \/ Upsample
    \/ Replicate

Spec == Init /\ [][Next]_vars

\* The same program with an inference callable that may return anything.
NextInfer ==
    \/ ChannelAdapt
    \/ Resample
    \/ Preallocate
    \/ PadMixture
    \/ LoopNext
    \/ LoopExit
    \/ SliceMix
    \/ SessRun(ArbitraryResults)
    \/ SavePrediction
    \/ Upsample
    \/ Replicate

InitInfer ==
    /\ InitPredict(BoundedDims)
    /\ MetricsIdle /\ SnrIdle /\ EvalIdle /\ UrmpIdle

SpecInfer == InitInfer /\ [][NextInfer]_vars


---------------------------------------------------------------------------
(* Properties of predict_track and predict.                                *)

\* predict_track has returned to predict (line 101 is done).
Returned == pc \in {"upsample", "tile", "done"}
\* mix_audio is the channel-adapted, resampled mixture (line 158 is done).
AfterResample == pc \notin {"adapt", "resample"}

\* The nominal output range of window k is [starts[k], starts[k] + O).
InWindow(k, p) == starts[k] <= p /\ p < starts[k] + output_time_frames
Overlap(a, b) ==
    /\ starts[a] < starts[b] + output_time_frames
    /\ starts[b] < starts[a] + output_time_frames

\* C1: for every mixture length L >= 1 and output window O >= 1, also
\* L < O, no window's output range [source_pos, source_pos + O) leaves
\* [0, L), and once the loop has finished every index of [0, L) lies in
\* the range of some window.
C1_TilingCoversExactly ==
    AfterResample =>
        /\ \A k \in 1..Len(starts) :
              0 <= starts[k] /\ starts[k] + output_time_frames <= source_time_frames
        /\ Returned =>
              \A p \in 0..(source_time_frames - 1) :
                  \E k \in 1..Len(starts) : InWindow(k, p)

\* C2: when L < O, exactly one window is processed, it starts at 0 (never
\* at a negative position), and the buffers hold the first L samples of
\* that window's result.
C2_ShortTrackSingleWindowAtZero ==
    (AfterResample /\ source_time_frames < output_time_frames) =>
        /\ Len(starts) <= 1
        /\ \A k \in 1..Len(starts) : starts[k] = 0
        /\ pc \in {"done", "error"} =>
              /\ Returned
              /\ Len(starts) = 1
              /\ \A s \in 1..Len(source_preds) :
                    \A p \in 0..(source_time_frames - 1) :
                        source_preds[s].data[p] = Cell(1, p)

\* What the code does with a track shorter than one window: the window
\* starts at L - O < 0 and the call ends in an exception, never in a return.
ShortTrackNeverReturns ==
    (AfterResample /\ source_time_frames < output_time_frames) =>
        /\ ~Returned
        /\ \A k \in 1..Len(starts) : starts[k] = source_time_frames - output_time_frames
        /\ \A s \in 1..Len(writes) : \A p \in DOMAIN writes[s] : writes[s][p] = 0

\* The starts the documentation describes, for L >= O: 0, O, 2O, ... while
\* the window fits, then L - O if a remainder is left.
ExpectedStarts(frames, out) ==
    [k \in 1..CeilDiv(frames, out) |->
        IF k * out <= frames THEN (k - 1) * out ELSE frames - out]

\* C3: with L >= O the window starts are 0, O, 2O, ... for every start
\* whose output range fits in [0, L), followed, only when O does not divide
\* L, by one final window starting at L - O, whose range ends at L; with
\* L = 1000, O = 400, I = 600 the starts are 0, 400, 600 and the last
\* window's output is written to [600, 1000).
C3_WindowStarts ==
    (AfterResample /\ source_time_frames >= output_time_frames) =>
        LET exp == ExpectedStarts(source_time_frames, output_time_frames)
        IN  /\ Len(starts) <= Len(exp)
            /\ \A k \in 1..Len(starts) : starts[k] = exp[k]
            /\ Returned =>
                  /\ starts = exp
                  /\ ranges[Len(ranges)] =
                        <<source_time_frames - output_time_frames, source_time_frames>>
            /\ ( /\ Returned
                 /\ source_time_frames = 1000
                 /\ output_time_frames = 400
                 /\ input_time_frames = 600 ) =>
                  /\ starts = <<0, 400, 600>>
                  /\ ranges[3] = <<600, 1000>>

C3_Witness ==
    /\ Returned
    /\ source_time_frames = 1000
    /\ output_time_frames = 400
    /\ input_time_frames = 600
    /\ starts = <<0, 400, 600>>

\* C4: no two non-final windows of one mixture overlap; the only windows
\* whose output ranges may overlap are the final one and the one before it.
C4_OnlyFinalTwoOverlap ==
    \A a, b \in 1..Len(starts) :
        (a < b /\ Overlap(a, b)) => (b = Len(starts) /\ a = b - 1)

C4_Witness ==
    /\ Returned
    /\ Len(starts) >= 3
    /\ Overlap(Len(starts) - 1, Len(starts))

\* The frames two windows of the run both write: those of the final window,
\* moved back, that the window before it wrote already.
WrittenTwice(p) ==
    /\ source_time_frames % output_time_frames # 0
    /\ source_time_frames - output_time_frames <= p
    /\ p < (source_time_frames \div output_time_frames) * output_time_frames

\* C5 as stated: over the whole loop every position of [0, L) of every
\* buffer is written exactly once.
C5_WrittenExactlyOnce ==
    Returned =>
        \A s \in 1..Len(writes) : \A p \in DOMAIN writes[s] : writes[s][p] = 1

\* C5, amended: no position is ever written more than twice; when the loop
\* has finished every position of [0, L) was written once, except those in
\* the overlap of the final, moved back window and the window before it,
\* which were written twice and hold the final window's result.
C5_WrittenOnceOrTwice ==
    \A s \in 1..Len(writes) : \A p \in DOMAIN writes[s] :
        /\ writes[s][p] <= 2
        /\ Returned =>
              /\ writes[s][p] = IF WrittenTwice(p) THEN 2 ELSE 1
              /\ WrittenTwice(p) =>
                    source_preds[s].data[p] =
                        Cell(Len(starts),
                             p - (source_time_frames - output_time_frames))

C5_Witness ==
    /\ Returned
    /\ \E s \in 1..Len(writes) : \E p \in DOMAIN writes[s] :
          writes[s][p] = 2 /\ source_preds[s].data[p].win = Len(starts)

\* C6, the state part: sess.run has been called once for every window
\* started (the current one excepted until line 181), and ceil(L / O)
\* times when predict_track returns.
C6_OncePerWindow ==
    AfterResample =>
        /\ infer_calls =
              IF pc \in {"slice", "run"} THEN Len(starts) - 1 ELSE Len(starts)
        /\ Returned =>
              infer_calls = CeilDiv(source_time_frames, output_time_frames)

\* C6: predict_track calls sess.run exactly once per window, ceil(L / O)
\* times for a mixture of L >= 1 frames, and has no other effect: the
\* caller's array is never modified.
C6_InferOncePerWindowOnly ==
    [](C6_OncePerWindow) /\ [][track_audio' = track_audio]_vars

C6_Witness ==
    /\ Returned
    /\ infer_calls >= 3
    /\ source_time_frames % output_time_frames # 0
    /\ mix_audio # track_audio

\* C7: predict_track returns num_sources buffers, each with the frames and
\* the channels of the channel-adapted, resampled mixture.
C7_BufferShapes ==
    pc \notin {"adapt", "resample", "alloc"} =>
        /\ Len(source_preds) = model_config.num_sources
        /\ mix_audio =
              Shape(ResampledFrames(track_audio.frames, orig_sr, model_config.expected_sr),
                    AdaptedChannels(model_config.mono_downmix, mix_channels))
        /\ \A s \in 1..Len(source_preds) :
              /\ source_preds[s].frames = mix_audio.frames
              /\ source_preds[s].channels = mix_audio.channels
              /\ DOMAIN source_preds[s].data = 0..(mix_audio.frames - 1)

C7_Witness ==
    /\ Returned
    /\ Len(source_preds) = 2
    /\ source_preds[2].channels = 2
    /\ mix_channels = 1
    /\ source_preds[2].frames # track_audio.frames
    /\ source_preds[2].frames % output_time_frames # 0

\* C8: whatever mono_downmix and the mixture's channel count, every
\* estimate predict produces has the channel count of the original mixture.
C8_EstimateChannels ==
    pc = "done" =>
        \A s \in 1..Len(pred_audio) : pred_audio[s].channels = mix_channels

\* What holds instead: the estimates have the original channel count unless
\* a mono mixture went through a stereo model, which gives two channels.
EstimateChannelsOfCode ==
    pc = "done" =>
        \A s \in 1..Len(pred_audio) :
            pred_audio[s].channels =
                IF ~model_config.mono_downmix /\ mix_channels = 1
                THEN 2 ELSE mix_channels

\* C9: when the inference callable returns a number of windows other than
\* num_sources, or windows of another frame or channel count than the
\* configured output shape, predict_track fails and never returns estimates
\* built from that result.
C9_InconsistentResultFails ==
    Returned => ~inconsistent


---------------------------------------------------------------------------
(* compute_mean_metrics.                                                   *)
(* A score is NaN or an exact rational; the statistics are computed on     *)
(* rationals, the standard deviation being given by its square.            *)

NaN == [nan |-> TRUE, num |-> 0, den |-> 1]

RECURSIVE GCD(_, _)
GCD(a, b) == IF b = 0 THEN a ELSE GCD(b, a % b)
AbsInt(a) == IF a < 0 THEN -a ELSE a

\* The rational n / d (d > 0), in lowest terms.
Num(n, d) ==
    LET g == GCD(AbsInt(n), d)
    IN  [nan |-> FALSE, num |-> n \div g, den |-> d \div g]
Score(k) == Num(k, 1)

IsNaN(x) == x.nan
Sub(x, y) ==
    IF x.nan \/ y.nan THEN NaN
    ELSE Num(x.num * y.den - y.num * x.den, x.den * y.den)
Add(x, y) ==
    IF x.nan \/ y.nan THEN NaN
    ELSE Num(x.num * y.den + y.num * x.den, x.den * y.den)
Mul(x, y) ==
    IF x.nan \/ y.nan THEN NaN ELSE Num(x.num * y.num, x.den * y.den)
DivBy(x, n) == IF x.nan THEN NaN ELSE Num(x.num, x.den * n)
Abs(x) == IF x.nan THEN NaN ELSE Num(AbsInt(x.num), x.den)
Less(x, y) == x.num * y.den < y.num * x.den

\* The entries of an array that are not NaN, in their order.
RECURSIVE DropNaN(_)
DropNaN(arr) ==
    IF arr = <<>> THEN <<>>
    ELSE IF IsNaN(Head(arr)) THEN DropNaN(Tail(arr))
    ELSE <<Head(arr)>> \o DropNaN(Tail(arr))

RECURSIVE Insert(_, _)
Insert(x, sorted) ==
    IF sorted = <<>> THEN <<x>>
    ELSE IF Less(Head(sorted), x) THEN <<Head(sorted)>> \o Insert(x, Tail(sorted))
    ELSE <<x>> \o sorted

RECURSIVE Sort(_)
Sort(arr) == IF arr = <<>> THEN <<>> ELSE Insert(Head(arr), Sort(Tail(arr)))

RECURSIVE Sum(_)
Sum(arr) == IF arr = <<>> THEN Score(0) ELSE Add(Head(arr), Sum(Tail(arr)))

\* np.nanmedian: NaN for no value, else the middle of the sorted values.
NanMedian(arr) ==
    LET v == Sort(DropNaN(arr))
        n == Len(v)
    IN  IF n = 0 THEN NaN
        ELSE IF n % 2 = 1 THEN v[(n + 1) \div 2]
        ELSE DivBy(Add(v[n \div 2], v[n \div 2 + 1]), 2)

\* np.nanmean: NaN for no value.
NanMean(arr) ==
    LET v == DropNaN(arr)
    IN  IF v = <<>> THEN NaN ELSE DivBy(Sum(v), Len(v))

\* np.nanstd, squared: the mean of the squared deviations from the mean.
NanStdSquared(arr) ==
    LET m == NanMean(arr)
    IN  NanMean([k \in 1..Len(arr) |-> Mul(Sub(arr[k], m), Sub(arr[k], m))])

\* Line 209: (median, median absolute deviation, mean, std) of one source.
Averages(sdr) ==
    LET med == NanMedian(sdr)
    IN  << med,
           NanMedian([k \in 1..Len(sdr) |-> Abs(Sub(sdr[k], med))]),
           NanMean(sdr),
           NanStdSquared(sdr) >>

\* A score record js: js[t] is the list of the SDR values of the frames of
\* target t.
ScoreLists == { <<>>, <<NaN>>, <<Score(1)>>, <<Score(4), NaN, Score(2)>> }
ScoreRecords == UNION { [1..t -> ScoreLists] : t \in 0..MaxTargets }
Folders == UNION { [1..n -> ScoreRecords] : n \in 0..MaxFiles }

InitMetrics ==
    /\ mpc = "read"
    /\ mraised = "none"
    /\ files \in Folders
    /\ path = 1
    /\ compute_averages \in BOOLEAN
    /\ sdr_inst_list = <<>>
    /\ stats = <<>>

\* Lines 199-200: the lists are created from the first record read.
Created(list, js) ==
    IF list = <<>> THEN << [t \in 1..Len(js) |-> <<>>] >> ELSE list

\* Lines 202-203: extend the list of every target of js; sdr_inst_list[i]
\* raises IndexError for a target the lists have no entry for, after the
\* targets before it were added.
Accumulate(list, js) ==
    LET lists == Created(list, js)[1]
        n == Min(Len(js), Len(lists))
    IN  [ raised |-> IF Len(js) > Len(lists) THEN "IndexError" ELSE "none",
          list |-> << [t \in 1..Len(lists) |->
                         IF t <= n THEN lists[t] \o js[t] ELSE lists[t]] >> ]

\* Lines 194-203: read the next file and add its scores.
ReadFile ==
    /\ mpc = "read"
    /\ path <= Len(files)
    /\ LET acc == Accumulate(sdr_inst_list, files[path])
       IN  /\ sdr_inst_list' = acc.list
           /\ mraised' = acc.raised
           /\ mpc' = IF acc.raised = "none" THEN "read" ELSE "error"
    /\ path' = path + 1
    /\ UNCHANGED <<files, compute_averages, stats>>
    /\ UNCHANGED notMetricVars

\* Lines 206-211: iterating over None raises TypeError; otherwise the
\* statistics of every list, or the lists themselves.
Summarize(list, averages) ==
    IF list = <<>>
    THEN [raised |-> "TypeError", value |-> <<>>]
    ELSE [raised |-> "none",
          value |-> IF averages
                    THEN [t \in 1..Len(list[1]) |-> Averages(list[1][t])]
                    ELSE list[1]]

Finish ==
    /\ mpc = "read"
    /\ path > Len(files)
    /\ LET out == Summarize(sdr_inst_list, compute_averages)
       IN  /\ stats' = out.value
           /\ mraised' = out.raised
           /\ mpc' = IF out.raised = "none" THEN "done" ELSE "error"
    /\ UNCHANGED <<files, path, compute_averages, sdr_inst_list>>
    /\ UNCHANGED notMetricVars

NextMetrics ==
    \/ ReadFile
    \/ Finish

InitFolder ==
    /\ InitMetrics
    /\ PredictIdle /\ SnrIdle /\ EvalIdle /\ UrmpIdle

SpecMetrics == InitFolder /\ [][NextMetrics]_vars

\* compute_mean_metrics on the records read in the order of the sequence fs:
\* the exception raised, if any, and the value returned.
RECURSIVE ReadAll(_, _)
ReadAll(list, fs) ==
    IF fs = <<>> THEN [raised |-> "none", list |-> list]
    ELSE LET acc == Accumulate(list, Head(fs))
         IN  IF acc.raised # "none" THEN acc ELSE ReadAll(acc.list, Tail(fs))

Outcome(fs, averages) ==
    LET acc == ReadAll(<<>>, fs)
    IN  IF acc.raised # "none"
        THEN [raised |-> acc.raised, value |-> <<>>]
        ELSE Summarize(acc.list, averages)

Orders(n) == { f \in [1..n -> 1..n] : \A a, b \in 1..n : f[a] = f[b] => a = b }
Reordered(fs, f) == [k \in 1..Len(fs) |-> fs[f[k]]]

\* C10: for any finite set of score records, compute_mean_metrics gives the
\* same per-source statistics in whatever order the records are read, also
\* when the records differ in their number of targets.
C10_OrderIndependent ==
    (mpc \in {"done", "error"} /\ compute_averages) =>
        \A f \in Orders(Len(files)) :
            Outcome(Reordered(files, f), TRUE) = [raised |-> mraised, value |-> stats]

\* What holds of the code: the order does not matter among records that
\* have as many targets as the first one read has, or fewer.
OrderIndependentForEqualTargets ==
    ( /\ mpc \in {"done", "error"}
      /\ compute_averages
      /\ \A a, b \in 1..Len(files) : Len(files[a]) = Len(files[b]) ) =>
        \A f \in Orders(Len(files)) :
            Outcome(Reordered(files, f), TRUE) = [raised |-> mraised, value |-> stats]


\* The four statistics of a source no score of which is a number.
AllNaN == <<NaN, NaN, NaN, NaN>>

\* C11: with compute_averages=True, a source whose scores are all NaN, or
\* that has no score, gets four NaN statistics, and the call does not end
\* in an exception, also when the folder holds no score file. (Stated for
\* folders whose records all have the same number of targets.)
C11_NaNStatisticsNoException ==
    ( /\ mpc \in {"done", "error"}
      /\ compute_averages
      /\ \A a, b \in 1..Len(files) : Len(files[a]) = Len(files[b]) ) =>
        /\ mraised = "none"
        /\ \A t \in 1..Len(stats) :
              DropNaN(sdr_inst_list[1][t]) = <<>> => stats[t] = AllNaN

\* What the code does: a source without a number gets four NaN whenever the
\* call returns, and a folder without a score file ends in the TypeError of
\* iterating over None (line 206).
NaNStatisticsWhenReturned ==
    /\ (mpc = "done" /\ compute_averages) =>
          \A t \in 1..Len(stats) :
              DropNaN(sdr_inst_list[1][t]) = <<>> <=> stats[t] = AllNaN
    /\ (mpc \in {"done", "error"} /\ files = <<>>) => mraised = "TypeError"


---------------------------------------------------------------------------
(* alpha_snr.                                                              *)
(* The signals are arrays of floating-point samples whose values are small *)
(* integers, so that every sum, product and quotient below is exact. A     *)
(* division by zero gives what numpy's floating-point division gives, an   *)
(* infinity or NaN (with a warning), not an exception.                     *)

PosInf == [nan |-> FALSE, num |-> 1, den |-> 0]
NegInf == [nan |-> FALSE, num |-> -1, den |-> 0]

\* x / y for finite or NaN x and y, as floating-point division.
FloatDiv(x, y) ==
    IF x.nan \/ y.nan THEN NaN
    ELSE IF y.num # 0 THEN
            (IF y.num > 0 THEN Num(x.num * y.den, x.den * y.num)
                          ELSE Num(-(x.num * y.den), x.den * (-y.num)))
    ELSE IF x.num = 0 THEN NaN
    ELSE IF x.num > 0 THEN PosInf ELSE NegInf

\* The array of the samples of a signal.
Samples(signal) == [k \in 1..Len(signal) |-> Score(signal[k])]

\* np.sum(np.square(a)) and np.inner(a, b).
SumSquares(a) == Sum([k \in 1..Len(a) |-> Mul(a[k], a[k])])
Inner(a, b) == Sum([k \in 1..Len(a) |-> Mul(a[k], b[k])])

\* Line 41, as a slip would write it, and as it is.
AlphaInverted(inner_prod, estimate_power) == FloatDiv(estimate_power, inner_prod)

Alpha(inner_prod, estimate_power) == FloatDiv(inner_prod, estimate_power)

\* Line 42: np.sum(np.square(target - alpha * estimate)).
ErrorPower(tgt, est) ==
    LET a == Alpha(Inner(est, tgt), SumSquares(est))
    IN  SumSquares([k \in 1..Len(tgt) |-> Sub(tgt[k], Mul(a, est[k]))])

\* Line 43: 10 * np.log10(ratio), kept as the ratio it is the logarithm of:
\* NaN for NaN, -inf for 0, +inf for +inf.
TenLog10(ratio) ==
    IF ratio.nan THEN [kind |-> "nan", of |-> NaN]
    ELSE IF ratio = PosInf THEN [kind |-> "+inf", of |-> ratio]
    ELSE IF ratio.num = 0 THEN [kind |-> "-inf", of |-> ratio]
    ELSE [kind |-> "finite", of |-> ratio]

\* Lines 38-44: no statement of alpha_snr raises; it returns snr.
alpha_snr(tgt, est) ==
    LET t == Samples(tgt)
        e == Samples(est)
    IN  [raised |-> "none",
         value |-> TenLog10(FloatDiv(SumSquares(t), ErrorPower(t, e)))]

Signals(n) == [1..n -> (-MaxSample)..MaxSample]

InitSnr ==
    /\ apc = "call"
    /\ \E n \in 1..MaxLen : target \in Signals(n) /\ estimate \in Signals(n)
    /\ snr_result = <<>>

InitAlphaSnr ==
    /\ InitSnr
    /\ PredictIdle /\ MetricsIdle /\ EvalIdle /\ UrmpIdle

AlphaSnrCall ==
    /\ apc = "call"
    /\ snr_result' = alpha_snr(target, estimate)
    /\ apc' = "returned"
    /\ UNCHANGED <<target, estimate>>
    /\ UNCHANGED <<predictVars, metricVars, evalVars, urmpVars>>

NextSnr == AlphaSnrCall

SpecSnr == InitAlphaSnr /\ [][NextSnr]_vars

IsZero(signal) == \A k \in 1..Len(signal) : signal[k] = 0

\* target = c * estimate for a scalar c # 0, c = p / q.
ScaledBy(p, q) == \A k \in 1..Len(target) : q * target[k] = p * estimate[k]
IsScaledEstimate ==
    \E p \in ((-MaxSample)..MaxSample) \ {0}, q \in 1..MaxSample : ScaledBy(p, q)

\* C12: alpha_snr called with an estimate whose power is zero signals a
\* DegenerateInputError instead of returning a value.
C12_ZeroEstimateRaises ==
    (apc = "returned" /\ IsZero(estimate)) =>
        snr_result.raised = "DegenerateInputError"

\* What the code does with such an estimate: alpha is 0/0, NaN, and NaN is
\* what it returns.
ZeroEstimateReturnsNaN ==
    (apc = "returned" /\ IsZero(estimate)) =>
        snr_result = [raised |-> "none", value |-> [kind |-> "nan", of |-> NaN]]

OrthogonalIsFinite ==
    (apc = "returned" /\ target = <<1, 0>> /\ estimate = <<0, 1>>) =>
        snr_result.value = [kind |-> "finite", of |-> Score(1)]


---------------------------------------------------------------------------
(* The excerpt given to inference.                                         *)

\* The frames np.pad put before the mixture (as many as after it).
PaddedBefore == (mix_audio_padded.frames - source_time_frames) \div 2

\* C15: for every window of a track of at least output_time_frames frames,
\* with input_time_frames - output_time_frames even and not negative, the
\* slice [source_pos, source_pos + input_time_frames) lies inside the padded
\* mixture of source_time_frames + (input_time_frames - output_time_frames)
\* frames, the excerpt has exactly input_time_frames frames, and it covers
\* the window's output range with half the difference as context before and
\* after it.
C15_ExcerptInsidePaddedMixture ==
    ( /\ pc \in {"run", "save"}
      /\ source_time_frames >= output_time_frames
      /\ input_time_frames >= output_time_frames
      /\ (input_time_frames - output_time_frames) % 2 = 0 ) =>
        LET half == (input_time_frames - output_time_frames) \div 2
        IN  /\ mix_audio_padded.frames =
                   source_time_frames + (input_time_frames - output_time_frames)
            /\ 0 <= source_pos
            /\ source_pos + input_time_frames <= mix_audio_padded.frames
            /\ mix_part.frames = input_time_frames
            /\ PaddedBefore = half
            /\ (source_pos + input_time_frames)
                   - (source_pos + PaddedBefore + output_time_frames) = half

\* The final window of a track that is not a multiple of the output length,
\* moved back, with context on both sides.
C15_Witness ==
    /\ pc = "run"
    /\ source_time_frames > output_time_frames
    /\ source_time_frames % output_time_frames # 0
    /\ input_time_frames > output_time_frames
    /\ source_pos = source_time_frames - output_time_frames
    /\ source_pos + input_time_frames = mix_audio_padded.frames
    /\ mix_part.frames = input_time_frames

---------------------------------------------------------------------------
(* compute_metrics.                                                        *)

\* A track of the dataset: the number of its ground truth sources, and
\* whether the estimate files looked up at lines 256-261 exist.
Tracks == [sources : 1..MaxSources, estimates : BOOLEAN]
Datasets == UNION { [1..n -> Tracks] : n \in 0..MaxTracks }

\* How the end of the dataset is signalled by sess.run(data_item), line 250.
\* The iterator is made outside this file: the get_next of a TensorFlow
\* one-shot iterator raises tf.errors.OutOfRangeError, a Python iterator
\* raises StopIteration.
EndSignals == {"StopIteration", "OutOfRangeError"}

\* Line 269: the exceptions the handler of the loop catches.
Caught(signal) == signal = "StopIteration"

InitEval ==
    /\ cpc = "loop"
    /\ craised = "none"
    /\ dataset \in Datasets
    /\ metrics = << <<>>, <<>>, <<>> >>
    /\ printed = <<>>
    /\ saved = <<>>

InitComputeMetrics ==
    /\ InitEval
    /\ PredictIdle /\ MetricsIdle /\ SnrIdle /\ UrmpIdle

\* Lines 264-267: bss_eval_sources gives one value per source for each of
\* SDR, SIR and SAR; each is appended to its list.
Appended(lists, track) ==
    [kind \in 1..3 |-> Append(lists[kind], [values |-> track.sources])]

\* Lines 250-267: one pass of the loop, for the next track of the dataset.
\* sf.read raises for an estimate file that does not exist.
NextTrack ==
    /\ cpc = "loop"
    /\ dataset # <<>>
    /\ dataset' = Tail(dataset)
    /\ IF Head(dataset).estimates
       THEN /\ metrics' = Appended(metrics, Head(dataset))
            /\ UNCHANGED <<cpc, craised>>
       ELSE /\ cpc' = "error"
            /\ craised' = "RuntimeError"
            /\ UNCHANGED metrics
    /\ UNCHANGED <<printed, saved>>
    /\ UNCHANGED <<predictVars, metricVars, snrVars, urmpVars>>

\* Line 250 when no track is left, and lines 269-270: the signal is caught,
\* or ends compute_metrics.
EndOfData ==
    /\ cpc = "loop"
    /\ dataset = <<>>
    /\ \E signal \in EndSignals :
          IF Caught(signal)
          THEN /\ printed' = Append(printed, "Metrics computed")
               /\ cpc' = "report"
               /\ UNCHANGED craised
          ELSE /\ cpc' = "error"
               /\ craised' = signal
               /\ UNCHANGED printed
    /\ UNCHANGED <<dataset, metrics, saved>>
    /\ UNCHANGED <<predictVars, metricVars, snrVars, urmpVars>>

\* Lines 272-278: print the three means, save np.array(metrics).
Report ==
    /\ cpc = "report"
    /\ printed' = printed \o <<"Mean SDR", "Mean SIR", "Mean SAR", "Metrics saved">>
    /\ saved' = <<metrics>>
    /\ cpc' = "done"
    /\ UNCHANGED <<craised, dataset, metrics>>
    /\ UNCHANGED <<predictVars, metricVars, snrVars, urmpVars>>

NextEval ==
    \/ NextTrack
    \/ EndOfData
    \/ Report

SpecEval == InitComputeMetrics /\ [][NextEval]_vars

\* C14: tracks are processed one at a time, and when the iterator signals
\* that no track is left the loop ends as normal completion: the run then
\* prints the mean metrics and saves the metrics array, and does not abort
\* with an error.
C14_EndOfDataCompletes ==
    /\ cpc = "error" => craised \notin EndSignals
    /\ (cpc \in {"report", "done"}) => dataset = <<>>
    /\ cpc = "done" =>
          /\ printed = <<"Metrics computed", "Mean SDR", "Mean SIR", "Mean SAR",
                         "Metrics saved">>
          /\ saved = <<metrics>>

\* What the code does: the run completes, with three lists of one entry per
\* track saved, when the signal is StopIteration; an OutOfRangeError is not
\* caught and ends the run before anything is printed or saved.
CompletesOnStopIterationOnly ==
    /\ (cpc \in {"report", "done"}) => dataset = <<>>
    /\ cpc = "done" =>
          /\ saved = <<metrics>>
          /\ \A kind \in 1..3 : Len(metrics[kind]) = Len(metrics[1])
    /\ (cpc = "error" /\ craised = "OutOfRangeError") =>
          /\ dataset = <<>>
          /\ printed = <<>>
          /\ saved = <<>>


---------------------------------------------------------------------------
(* getURMPV2: the tuple of one track folder.                               *)

\* Lines 182-197.
source_map ==
    [mix |-> 0, bn |-> 1, cl |-> 2, db |-> 3, fl |-> 4, hn |-> 5, ob |-> 6,
     sax |-> 7, tba |-> 8, tbn |-> 9, tpt |-> 10, va |-> 11, vc |-> 12,
     vn |-> 13]

\* Line 207: range(14).
NumSources == Cardinality(DOMAIN source_map)

\* A file name prefix_n_name_....ext, by the parts the code looks at:
\* startswith (line 212), split('_')[2] (line 221), endswith (line 211).
File(prefix, name, ext) == [prefix |-> prefix, name |-> name, ext |-> ext]
FolderFiles ==
    { File("AuMix", "mix", "wav"), File("AuSep", "bn", "wav"),
      File("AuSep", "cl", "wav"), File("AuSep", "va", "wav"),
      File("AuSep", "vn", "wav"), File("AuSep", "gtr", "wav"),
      File("Notes", "vn", "txt") }

\* os.listdir: the files of the folder, each once, in arbitrary order.
Listings ==
    { l \in UNION { [1..n -> FolderFiles] : n \in 0..MaxListing } :
        \A a, b \in 1..Len(l) : a # b => l[a] # l[b] }

\* The entries of track_sources: "0" is the integer 0 of line 207, "silence"
\* the silence Sample, any other the Sample of the file of that source.
Placeholder == "0"
Silence == "silence"

\* list.insert(idx, x) for idx >= 0: x is put before the entry at idx, the
\* entries from idx on move up by one, the list grows by one.
ListInsert(list, idx, x) ==
    LET at == Min(idx, Len(list))
    IN  SubSeq(list, 1, at) \o <<x>> \o SubSeq(list, at + 1, Len(list))

InitUrmp ==
    /\ upc = "list"
    /\ uraised = "none"
    /\ listing \in Listings
    /\ entry = 0
    /\ track_sources = [k \in 1..NumSources |-> Placeholder]
    /\ track_list = <<>>

InitFolderListing ==
    /\ InitUrmp
    /\ PredictIdle /\ MetricsIdle /\ SnrIdle /\ EvalIdle

\* Lines 210-226: one file of the listing.
ReadEntry ==
    /\ upc = "list"
    /\ entry < Len(listing)
    /\ entry' = entry + 1
    /\ LET file == listing[entry + 1]
       IN  IF file.ext # "wav"
           THEN UNCHANGED <<upc, uraised, track_sources>>
           ELSE IF file.prefix = "AuMix"
           THEN /\ track_sources' = ListInsert(track_sources, 0, "mix")
                /\ UNCHANGED <<upc, uraised>>
           ELSE IF file.name \in DOMAIN source_map
           THEN /\ track_sources' =
                       ListInsert(track_sources, source_map[file.name], file.name)
                /\ UNCHANGED <<upc, uraised>>
           ELSE /\ upc' = "error"
                /\ uraised' = "KeyError"
                /\ UNCHANGED track_sources
    /\ UNCHANGED <<listing, track_list>>
    /\ UNCHANGED <<predictVars, metricVars, snrVars, evalVars>>

\* Lines 228-237: silence for the entries still 0, the tuple appended.
FillSilence ==
    /\ upc = "list"
    /\ entry = Len(listing)
    /\ track_sources' = [k \in 1..Len(track_sources) |->
                            IF track_sources[k] = Placeholder
                            THEN Silence ELSE track_sources[k]]
    /\ track_list' = Append(track_list, track_sources')
    /\ upc' = "done"
    /\ UNCHANGED <<uraised, listing, entry>>
    /\ UNCHANGED <<predictVars, metricVars, snrVars, evalVars>>

NextUrmp ==
    \/ ReadEntry
    \/ FillSilence

SpecUrmp == InitFolderListing /\ [][NextUrmp]_vars

\* The sources whose .wav file is in the listing.
Present == { listing[k].name : k \in { j \in 1..Len(listing) : listing[j].ext = "wav" } }

\* C16: for every listing order of a track folder, the track tuple has
\* exactly 14 entries, the mix Sample at index 0, every present instrument's
\* Sample at its source_map index, and silence at the index of every absent
\* instrument.
C16_TupleBySourceMap ==
    upc = "done" =>
        LET tuple == track_list[Len(track_list)]
        IN  /\ Len(tuple) = 14
            /\ \A name \in DOMAIN source_map :
                  /\ name \in Present => tuple[source_map[name] + 1] = name
                  /\ (name \notin Present /\ name # "mix") =>
                         tuple[source_map[name] + 1] = Silence

\* What the code does: every file read adds an entry, the 14 entries of
\* line 207 all become silence.
TupleGrowsByFilesRead ==
    upc = "done" =>
        LET tuple == track_list[Len(track_list)]
        IN  /\ Len(tuple) = 14 + Cardinality(Present)
            /\ Cardinality({k \in 1..Len(tuple) : tuple[k] = Silence}) = 14
            /\ \A name \in Present : \E k \in 1..Len(tuple) : tuple[k] = name

\* Nothing is inserted before index 0 but the mix Sample, so it stays
\* there; an instrument's Sample moves up with every later insertion at or
\* before its index.
MixAtIndexZero ==
    (upc = "done" /\ "mix" \in Present) => track_list[Len(track_list)][1] = "mix"

===========================================================================
